---- MODULE Spec2Model ----
(***************************************************************************)
(* playlib-backend: the MongoDB connection manager (src/config/dbClient.js), *)
(* the server start-up (src/app.js), the games repository                  *)
(* (src/models/Juegos.js) and the request handlers                         *)
(* (src/controllers/juegosController.js).                                  *)
(*                                                                         *)
(* Spec      the connection manager, start-up and the repository's handle  *)
(*           check, driven by the driver's events and by callers of the    *)
(*           manager's public methods.                                     *)
(* SpecRepo  the repository and the handlers over the games collection.    *)
(*                                                                         *)
(* The MongoDB driver is the environment.  A MongoClient's topology is     *)
(* "none" until its first successful connect(), "connected" after a        *)
(* successful connect() and "closed" after close(); connect() on a         *)
(* connected client resolves at once, on any other client it resolves or   *)
(* rejects later.  Code between two awaits runs without interleaving, so a  *)
(* promise's settlement and the continuations chained on it are one step.  *)
(***************************************************************************)
EXTENDS Integers, Sequences, FiniteSets, Bags, TLC

\* ------------------------------------------------------------------ bounds
MaxClients == 1     \* MongoClient instances ever constructed
MaxPending == 2     \* reconnect timers and retry chains pending at once
MaxCounter == 6     \* cap of connectionAttempts
MaxOid     == 3     \* ObjectIds ever generated (games and reviews)
MaxClock   == 1     \* milliseconds the clock advances
MaxRequests == 3    \* requests answered in one behaviour

\* --------------------------------------------------- program constants
maxReconnectAttempts == 5

VARIABLES
    env,                \* process.env: which of the three settings are present
    client,             \* this.client: 0 is null, else the MongoClient's number
    db,                 \* this.db: 0 is null, else the client whose .db() it is
    connectionAttempts, \* this.connectionAttempts
    topology,           \* driver: each MongoClient's topology state
    listeners,          \* driver: setupEventListeners registrations per client
    nextClient,         \* the number the next new MongoClient gets
    chains,             \* connectWithRetry invocations in progress (a bag)
    timers,             \* pending setTimeout(() => this.connectWithRetry())
    srv,                \* startServer: "init", "awaiting", "listening", "exited"
    proc,               \* the Node process: "running" or "crashed"
    res,                \* what the last step showed outside: the outcome of a
                        \* call of conectarDB, getDB or the repository, or an
                        \* unhandledRejection of the process
    store,              \* the "games" collection: ObjectId -> document
    nextOid,            \* the number the next generated ObjectId gets
    clock,              \* Date.now(), in milliseconds since start
    resp,               \* the HTTP response of the last request handled
    served,             \* the number of requests answered so far
    born,               \* history: ObjectId of a game -> the instant create() ran
    flight              \* add-review requests awaiting findOneAndUpdate or
                        \* just answered: ObjectId of the review -> request

connVars == <<env, client, db, connectionAttempts, topology, listeners,
              nextClient, chains, timers, srv, proc, res>>

repoVars == <<store, nextOid, clock, resp, served, born, flight>>

vars == <<connVars, repoVars>>

Clients == 1..MaxClients

EnvKeys == {"USER_DB", "PASSWORD_DB", "SERVER_DB"}

\* One connectWithRetry chain: where it is suspended ("connecting" on the
\* awaited connect() of client `target`, or "waiting" out reconnectDelay),
\* who started it and how many attempts it has made.
Chain(pc, o, c, m) == [pc |-> pc, origin |-> o, target |-> c, made |-> m]
One(ch) == SetToBag({ch})
InProgress == BagCardinality(chains)
Pending == InProgress + timers

\* The attempts of one chain are counted up to one past the maximum.
CountMade(m) == IF m > maxReconnectAttempts THEN m ELSE m + 1
NoRes == [op |-> "none", out |-> "none", val |-> 0]
UnhandledRejection == [op |-> "unhandledRejection", out |-> "throw", val |-> 0]

\* Path identifiers of requests: HexId(n) is the 24-character hexadecimal
\* string of ObjectId n, ShortId a string such as "abc".
HexId(n) == [hex |-> TRUE, oid |-> n]
ShortId == [hex |-> FALSE, oid |-> 0]
PathIds == {HexId(n) : n \in 1..MaxOid} \cup {ShortId}

\* /^[a-fA-F0-9]{24}$/.test(id), with id.length === 24.
IsHex24(id) == id.hex

\* ObjectId.isValid(id) on a path identifier.
ObjectIdIsValid(id) == id.hex

RepoOps == {"create", "getAll", "getOne", "update", "delete",
            "addResena", "getResenas"}

\* The callers whose connectWithRetry is awaited inside initialize().
InitOrigins == {"startServer", "api"}

\* -------------------------------------------------------- dbClient.js
\* initialize(): the three settings must all be set.
ConfigPresent == \A k \in EnvKeys : env[k]

\* isConnected(): this.client && this.client.topology && topology.isConnected()
isConnected == client # 0 /\ topology[client] = "connected"

\* A plausible slip: getDB() without its connection check.
getDB_unchecked == [op |-> "getDB", out |-> "db", val |-> db]

\* getDB(): throws when not connected, else returns this.db.
getDB ==
    IF ~isConnected THEN [op |-> "getDB", out |-> "throw", val |-> 0]
    ELSE [op |-> "getDB", out |-> "db", val |-> db]


\* ------------------------------------------------- Juegos.js, the entry
\* _col(): throws when dbClient.db is not set, else hands out the collection.
_col == IF db = 0 THEN "notInitialized" ELSE "store"

\* How a repository method starts.  getOne, update, delete and getResenas
\* return their "not found" value on an invalid id and addResena throws,
\* all before _col(); create and getAll take no id.  "store" means the
\* method goes on to its collection operation.
repoEntry(op, id) ==
    IF op \in {"getOne", "update", "delete", "getResenas"}
            /\ ~ObjectIdIsValid(id)
    THEN "notFound"
    ELSE IF op = "addResena" /\ ~ObjectIdIsValid(id)
    THEN "invalidId"
    ELSE _col

\* handleConnectionError(error): one more reconnect timer while the counter
\* is below the maximum, else only a log line.  n is the counter's value
\* when the function runs, t the number of pending timers.
handleConnectionError(n, t) ==
    IF n < maxReconnectAttempts THEN t + 1 ELSE t

\* startServer after `await dbClient.conectarDB()`: app.listen on
\* resolution, process.exit(1) in the catch branch on rejection.
startServerAfter(outcome) ==
    IF outcome = "rejected" THEN "exited" ELSE "listening"


\* ------------------------------------------- connectWithRetry (one chain)
\* The try branch after a resolved connect(): this.db is taken from the
\* client that is current now, the counter is reset, the chain ends; an
\* awaiting initialize() then runs setupEventListeners() on this.client and
\* resolves its caller.  t is the number of pending timers.
connectSucceeded(rest, o, t) ==
    /\ db' = client
    /\ connectionAttempts' = 0
    /\ chains' = rest
    /\ listeners' = IF o \in InitOrigins
                    THEN [listeners EXCEPT ![client] = @ + 1]
                    ELSE listeners
    /\ srv' = IF o = "startServer" THEN startServerAfter("resolved") ELSE srv
    /\ timers' = t
    /\ res' = NoRes
    /\ UNCHANGED proc

\* The catch branch: the counter is incremented; below the maximum the chain
\* waits reconnectDelay and calls itself, else it throws.  A throw into
\* initialize() is caught there (handleConnectionError, then the caller is
\* resolved); a throw out of a timer callback's promise has no handler.
connectFailed(rest, o, m, t) ==
    LET n == connectionAttempts + 1 IN
    /\ connectionAttempts' = n
    /\ UNCHANGED <<db, listeners>>
    /\ IF n < maxReconnectAttempts
       THEN /\ chains' = rest (+) One(Chain("waiting", o, 0, m))
            /\ timers' = t
            /\ res' = NoRes
            /\ UNCHANGED <<srv, proc>>
       ELSE /\ chains' = rest
            /\ IF o \in InitOrigins
               THEN /\ timers' = handleConnectionError(n, t)
                    /\ srv' = IF o = "startServer"
                              THEN startServerAfter("resolved") ELSE srv
                    /\ res' = NoRes
                    /\ UNCHANGED proc
               ELSE /\ timers' = t
                    /\ res' = UnhandledRejection
                    /\ proc' \in {"running", "crashed"}
                    /\ UNCHANGED srv

\* One call of connectWithRetry() (a timer's, or a chain calling itself) up
\* to its first suspension: this.client.connect() throws a TypeError when
\* this.client is null, resolves at once on a connected client and is
\* awaited otherwise.  m counts the chain's attempts so far.
connectWithRetry(rest, o, m, t) ==
    IF client = 0
    THEN connectFailed(rest, o, CountMade(m), t)
    ELSE IF isConnected
    THEN connectSucceeded(rest, o, t)
    ELSE /\ chains' = rest (+) One(Chain("connecting", o, client, CountMade(m)))
         /\ timers' = t
         /\ res' = NoRes
         /\ UNCHANGED <<db, connectionAttempts, listeners, srv, proc>>

\* ------------------------------------------------------------ actions
\* initialize(): a missing setting throws into the catch branch
\* (handleConnectionError) and the caller is resolved; else a new
\* MongoClient replaces this.client and connectWithRetry() is awaited.
initialize(caller) ==
    IF ~ConfigPresent
    THEN /\ InProgress + handleConnectionError(connectionAttempts, timers)
                <= MaxPending
         /\ timers' = handleConnectionError(connectionAttempts, timers)
         /\ srv' = IF caller = "startServer"
                   THEN startServerAfter("resolved") ELSE srv
         /\ res' = [op |-> "conectarDB", out |-> "undefined", val |-> 0]
         /\ UNCHANGED <<env, client, db, connectionAttempts, topology,
                        listeners, nextClient, chains, proc>>
    ELSE /\ nextClient <= MaxClients
         /\ Pending < MaxPending
         /\ client' = nextClient
         /\ nextClient' = nextClient + 1
         /\ chains' = chains (+) One(Chain("connecting", caller, nextClient, 1))
         /\ srv' = IF caller = "startServer" THEN "awaiting" ELSE srv
         /\ res' = [op |-> "conectarDB", out |-> "pending", val |-> 0]
         /\ UNCHANGED <<env, db, connectionAttempts, topology, listeners,
                        timers, proc>>

\* A plausible slip: conectarDB() that tests this.client alone.
conectarDB_clientOnly(caller) ==
    IF client # 0
    THEN /\ res' = [op |-> "conectarDB", out |-> "client", val |-> client]
         /\ srv' = IF caller = "startServer"
                   THEN startServerAfter("resolved") ELSE srv
         /\ UNCHANGED <<env, client, db, connectionAttempts, topology,
                        listeners, nextClient, chains, timers, proc>>
    ELSE initialize(caller)

\* conectarDB(): the current client when connected, else initialize().
conectarDB(caller) ==
    IF client # 0 /\ isConnected
    THEN /\ res' = [op |-> "conectarDB", out |-> "client", val |-> client]
         /\ srv' = IF caller = "startServer"
                   THEN startServerAfter("resolved") ELSE srv
         /\ UNCHANGED <<env, client, db, connectionAttempts, topology,
                        listeners, nextClient, chains, timers, proc>>
    ELSE initialize(caller)

\* startServer(): the one call of conectarDB() the program makes.
StartServer ==
    /\ proc = "running"
    /\ UNCHANGED repoVars
    /\ srv = "init"
    /\ conectarDB("startServer")

\* Any other caller of the exported singleton's conectarDB().
ConectarDB ==
    /\ proc = "running"
    /\ UNCHANGED repoVars
    /\ srv # "init"
    /\ conectarDB("api")

\* The awaited this.client.connect() of chain i settles.
ConnectDone(ch, ok) ==
    /\ proc = "running"
    /\ UNCHANGED repoVars
    /\ ch.pc = "connecting"
    /\ UNCHANGED <<env, client, nextClient>>
    /\ IF ok
       THEN /\ topology' = [topology EXCEPT ![ch.target] = "connected"]
            /\ connectSucceeded(chains (-) One(ch), ch.origin, timers)
       ELSE /\ topology[ch.target] # "connected"
            /\ connectionAttempts < MaxCounter
            /\ UNCHANGED topology
            /\ connectFailed(chains (-) One(ch), ch.origin, ch.made, timers)

\* The reconnectDelay of chain i elapses: connectWithRetry() calls itself.
WaitDone(ch) ==
    /\ proc = "running"
    /\ UNCHANGED repoVars
    /\ ch.pc = "waiting"
    /\ connectionAttempts < MaxCounter
    /\ UNCHANGED <<env, client, nextClient, topology>>
    /\ connectWithRetry(chains (-) One(ch), ch.origin, ch.made, timers)

\* A reconnect timer of handleConnectionError fires: a new chain, whose
\* promise nobody holds.
TimerFire ==
    /\ proc = "running"
    /\ UNCHANGED repoVars
    /\ timers > 0
    /\ connectionAttempts < MaxCounter
    /\ UNCHANGED <<env, client, nextClient, topology>>
    /\ connectWithRetry(chains, "timer", 0, timers - 1)

\* The listeners of setupEventListeners(): each registration of the event
\* calls handleConnectionError once.
RECURSIVE Emit(_, _)
Emit(k, t) ==
    IF k = 0 THEN t
    ELSE Emit(k - 1, handleConnectionError(connectionAttempts, t))

\* serverHeartbeatFailed on a monitored client.
HeartbeatFailed(c) ==
    /\ proc = "running"
    /\ UNCHANGED repoVars
    /\ listeners[c] > 0
    /\ topology[c] = "connected"
    /\ InProgress + Emit(listeners[c], timers) <= MaxPending
    /\ timers' = Emit(listeners[c], timers)
    /\ res' = NoRes
    /\ UNCHANGED <<env, client, db, connectionAttempts, topology, listeners,
                   nextClient, chains, srv, proc>>

\* connectionPoolClosed on a client that has had a pool.
PoolClosed(c) ==
    /\ proc = "running"
    /\ UNCHANGED repoVars
    /\ listeners[c] > 0
    /\ topology[c] # "none"
    /\ InProgress + Emit(listeners[c], timers) <= MaxPending
    /\ timers' = Emit(listeners[c], timers)
    /\ res' = NoRes
    /\ UNCHANGED <<env, client, db, connectionAttempts, topology, listeners,
                   nextClient, chains, srv, proc>>

\* closeConnection(): closes this.client when there is one.
CloseConnection ==
    /\ proc = "running"
    /\ UNCHANGED repoVars
    /\ srv # "init"
    /\ topology' = IF client # 0
                   THEN [topology EXCEPT ![client] = "closed"]
                   ELSE topology
    /\ res' = NoRes
    /\ UNCHANGED <<env, client, db, connectionAttempts, listeners, nextClient,
                   chains, timers, srv, proc>>

\* A caller of getDB().
GetDB ==
    /\ proc = "running"
    /\ UNCHANGED repoVars
    /\ srv # "init"
    /\ res' = getDB
    /\ UNCHANGED <<env, client, db, connectionAttempts, topology, listeners,
                   nextClient, chains, timers, srv, proc>>

\* A request reaches a repository method with path identifier id.  Next
\* calls it with a well-formed identifier; what the methods do with a
\* malformed one is exercised by the handlers of SpecRepo.
RepoCall(op, id) ==
    /\ proc = "running"
    /\ UNCHANGED repoVars
    /\ srv # "init"
    /\ res' = [op |-> op, out |-> repoEntry(op, id),
               val |-> IF ObjectIdIsValid(id) THEN 1 ELSE 0]
    /\ UNCHANGED <<env, client, db, connectionAttempts, topology, listeners,
                   nextClient, chains, timers, srv, proc>>

NoDoc == <<>>

\* A response: the handler, the path id, the status, the number of
\* repository calls the request made, the `field` of a validation
\* response and the `data` of a success.
Resp(op, id, status, calls, field, data) ==
    [op |-> op, id |-> id, status |-> status, calls |-> calls,
     field |-> field, data |-> data]
NoResp == Resp("none", ShortId, 0, 0, "none", NoDoc)

Init ==
    /\ env \in [EnvKeys -> BOOLEAN]
    /\ client = 0
    /\ db = 0
    /\ connectionAttempts = 0
    /\ topology = [c \in Clients |-> "none"]
    /\ listeners = [c \in Clients |-> 0]
    /\ nextClient = 1
    /\ chains = EmptyBag
    /\ timers = 0
    /\ srv = "init"
    /\ proc = "running"
    /\ res = NoRes
    /\ store = <<>>
    /\ nextOid = 1
    /\ clock = 0
    /\ resp = NoResp
    /\ served = 0
    /\ born = <<>>
    /\ flight = <<>>

Next ==
    \/ StartServer
    \/ ConectarDB
    \/ \E ch \in BagToSet(chains), ok \in BOOLEAN : ConnectDone(ch, ok)
    \/ \E ch \in BagToSet(chains) : WaitDone(ch)
    \/ TimerFire
    \/ \E c \in Clients : HeartbeatFailed(c)
    \/ \E c \in Clients : PoolClosed(c)
    \/ CloseConnection
    \/ GetDB
    \/ \E op \in RepoOps : RepoCall(op, HexId(1))

Spec == Init /\ [][Next]_vars

\* ============================================== JavaScript and JSON values
\* A value is a record: k its kind, s a string's text, n a number (or the
\* instant of an ISO timestamp string, or an ObjectId's number), a an
\* array's elements.  A key that is absent reads as Undefined.
Val(k, str, n, a) == [k |-> k, s |-> str, n |-> n, a |-> a]
Undefined == Val("undefined", "", 0, <<>>)
Null == Val("null", "", 0, <<>>)
NaN == Val("nan", "", 0, <<>>)
Str(str) == Val("str", str, 0, <<>>)
Num(n) == Val("num", "", n, <<>>)
Bool(b) == Val("bool", "", IF b THEN 1 ELSE 0, <<>>)
Arr(a) == Val("arr", "", 0, a)
Oid(n) == Val("oid", "", n, <<>>)
\* The 24-character hexadecimal string of ObjectId n.
HexStr(n) == Val("str", "hex", n, <<>>)
\* new Date().toISOString() at instant t.
Iso(t) == Val("str", "iso", t, <<>>)

EmptyBody == [key \in {} |-> Undefined]
Get(obj, key) == IF key \in DOMAIN obj THEN obj[key] ELSE Undefined
Without(obj, key) == [f \in DOMAIN obj \ {key} |-> obj[f]]

\* ToBoolean(v): what `!v`, `v || d` and `v ? a : b` test.
Truthy(v) ==
    CASE v.k = "str" -> v.s # ""
      [] v.k = "num" -> v.n # 0
      [] v.k = "bool" -> v.n = 1
      [] v.k \in {"arr", "oid"} -> TRUE
      [] OTHER -> FALSE

\* v || d
OrElse(v, d) == IF Truthy(v) THEN v ELSE d

\* Array.isArray(v)
IsArray(v) == v.k = "arr"

\* Number(v) on the values requests carry here.
NumberOf(v) ==
    CASE v.k = "num" -> v
      [] v.k = "str" /\ v.s = "2001" -> Num(2001)
      [] v.k = "str" /\ v.s = "" -> Num(0)
      [] v.k = "null" -> Num(0)
      [] v.k = "bool" -> Num(v.n)
      [] OTHER -> NaN

\* parseInt(v, 10) on the values requests carry here.
ParseInt(v) ==
    CASE v.k = "num" -> v
      [] v.k = "str" /\ v.s = "2001" -> Num(2001)
      [] OTHER -> NaN

\* isNaN(v)
IsNaN(v) == v.k = "nan"

\* ============================================================ Juegos.js
\* A plausible slip: create() storing genero and plataforma as received,
\* without wrapping a bare string.
newGame_noWrap(gameData, t) ==
    [f \in {"titulo", "genero", "plataforma", "anoLanzamiento",
            "desarrollador", "imagenPortada", "descripcion", "completado",
            "fechaCreacion", "horasJugadas", "resenas"} |->
        CASE f = "titulo" -> OrElse(Get(gameData, f), Str(""))
          [] f \in {"genero", "plataforma"} ->
                OrElse(Get(gameData, f), Arr(<<Str("")>>))
          [] f = "anoLanzamiento" ->
                IF Truthy(Get(gameData, f)) THEN ParseInt(Get(gameData, f))
                ELSE Null
          [] f \in {"desarrollador", "imagenPortada", "descripcion"} ->
                OrElse(Get(gameData, f), Str(""))
          [] f = "completado" -> OrElse(Get(gameData, f), Bool(FALSE))
          [] f = "fechaCreacion" -> Iso(t)
          [] f = "horasJugadas" ->
                IF Truthy(Get(gameData, f)) THEN ParseInt(Get(gameData, f))
                ELSE Num(0)
          [] f = "resenas" -> OrElse(Get(gameData, f), Arr(<<>>))]

\* create(): the document built from gameData at instant t.
newGame(gameData, t) ==
    [f \in {"titulo", "genero", "plataforma", "anoLanzamiento",
            "desarrollador", "imagenPortada", "descripcion", "completado",
            "fechaCreacion", "horasJugadas", "resenas"} |->
        CASE f = "titulo" -> OrElse(Get(gameData, f), Str(""))
          [] f \in {"genero", "plataforma"} ->
                IF IsArray(Get(gameData, f)) THEN Get(gameData, f)
                ELSE Arr(<<OrElse(Get(gameData, f), Str(""))>>)
          [] f = "anoLanzamiento" ->
                IF Truthy(Get(gameData, f)) THEN ParseInt(Get(gameData, f))
                ELSE Null
          [] f \in {"desarrollador", "imagenPortada", "descripcion"} ->
                OrElse(Get(gameData, f), Str(""))
          [] f = "completado" -> OrElse(Get(gameData, f), Bool(FALSE))
          [] f = "fechaCreacion" -> Iso(t)
          [] f = "horasJugadas" ->
                IF Truthy(Get(gameData, f)) THEN ParseInt(Get(gameData, f))
                ELSE Num(0)
          [] f = "resenas" -> OrElse(Get(gameData, f), Arr(<<>>))]

\* insertOne(newGame): the store with the document under a fresh _id.
insertOne(doc, oid) ==
    [g \in DOMAIN store \cup {oid} |->
        IF g = oid THEN doc @@ ("_id" :> Oid(oid)) ELSE store[g]]

\* update(): the $set payload made from updateData.  _id is deleted
\* whatever it holds; fechaCreacion is deleted when it is truthy.
updatePayload(updateData) ==
    LET set == Without(updateData, "_id") IN
    IF Truthy(Get(set, "fechaCreacion"))
    THEN Without(set, "fechaCreacion")
    ELSE set

\* { $set: payload } applied to a document.
applySet(doc, payload) ==
    [f \in DOMAIN doc \cup DOMAIN payload |->
        IF f \in DOMAIN payload THEN payload[f] ELSE doc[f]]

\* addResena(): the review built from resenaData at instant t.
newResena(id, oid, resenaData, t) ==
    [f \in {"_id", "juegoId", "nombreUsuario", "textoResena",
            "calificaciones", "horasJugadas", "dificultad", "recomendaria",
            "fechaCreacion"} |->
        CASE f = "_id" -> Oid(oid)
          [] f = "juegoId" -> HexStr(id.oid)
          [] f = "nombreUsuario" -> OrElse(Get(resenaData, f), Str("Anonimo"))
          [] f = "textoResena" -> OrElse(Get(resenaData, f), Str(""))
          [] f \in {"calificaciones", "horasJugadas"} ->
                OrElse(Get(resenaData, f), Num(0))
          [] f = "dificultad" -> OrElse(Get(resenaData, f), Str("Normal"))
          [] f = "recomendaria" ->
                IF Get(resenaData, f) # Undefined THEN Get(resenaData, f)
                ELSE Bool(TRUE)
          [] f = "fechaCreacion" -> Iso(t)]

\* A plausible slip: the review written with $set, as the whole array,
\* in place of $push.
applyPush_overwrite(doc, r) ==
    [doc EXCEPT !["resenas"] = Arr(<<r>>)]

\* { $push: { resenas: r } } applied to a document.
applyPush(doc, r) ==
    [doc EXCEPT !["resenas"] = Arr(Append(@.a, r))]

\* The outcome of a repository method: it threw err, or it returned; found
\* tells a document, a deletion or a review from null / false, doc is the
\* document or review returned, store the collection afterwards and used
\* the number of ObjectIds generated.
Outcome(threw, err, found, doc, st, used) ==
    [threw |-> threw, err |-> err, found |-> found, doc |-> doc,
     store |-> st, used |-> used]
NotInitialized == Outcome(TRUE, "notInitialized", FALSE, NoDoc, store, 0)
NotFound == Outcome(FALSE, "none", FALSE, NoDoc, store, 0)

\* A plausible slip: create() returning what it was given, with the id,
\* instead of the document it stored.
Modelo_create_returnsInput(gameData) ==
    IF _col = "notInitialized" THEN NotInitialized
    ELSE LET doc == newGame(gameData, clock) IN
         Outcome(FALSE, "none", TRUE, gameData @@ ("_id" :> Oid(nextOid)),
                 insertOne(doc, nextOid), 1)

\* create(gameData)
Modelo_create(gameData) ==
    IF _col = "notInitialized" THEN NotInitialized
    ELSE LET doc == newGame(gameData, clock) IN
         Outcome(FALSE, "none", TRUE, doc @@ ("_id" :> Oid(nextOid)),
                 insertOne(doc, nextOid), 1)

\* getOne(id)
Modelo_getOne(id) ==
    IF ~ObjectIdIsValid(id) THEN NotFound
    ELSE IF _col = "notInitialized" THEN NotInitialized
    ELSE IF id.oid \in DOMAIN store
    THEN Outcome(FALSE, "none", TRUE, store[id.oid], store, 0)
    ELSE NotFound

\* A plausible slip: update() asking for the collection before it checks
\* the id.
Modelo_update_handleFirst(id, updateData) ==
    IF _col = "notInitialized" THEN NotInitialized
    ELSE IF ~ObjectIdIsValid(id) THEN NotFound
    ELSE IF id.oid \in DOMAIN store
    THEN LET after == applySet(store[id.oid], updatePayload(updateData)) IN
         Outcome(FALSE, "none", TRUE, after,
                 [store EXCEPT ![id.oid] = after], 0)
    ELSE NotFound

\* update(id, updateData): findOneAndUpdate with returnDocument 'after'.
Modelo_update(id, updateData) ==
    IF ~ObjectIdIsValid(id) THEN NotFound
    ELSE IF _col = "notInitialized" THEN NotInitialized
    ELSE IF id.oid \in DOMAIN store
    THEN LET after == applySet(store[id.oid], updatePayload(updateData)) IN
         Outcome(FALSE, "none", TRUE, after,
                 [store EXCEPT ![id.oid] = after], 0)
    ELSE NotFound

\* A plausible slip: delete() reporting success without looking at
\* deletedCount.
Modelo_delete_anyCount(id) ==
    IF ~ObjectIdIsValid(id) THEN NotFound
    ELSE IF _col = "notInitialized" THEN NotInitialized
    ELSE Outcome(FALSE, "none", TRUE, NoDoc,
                 [g \in DOMAIN store \ {id.oid} |-> store[g]], 0)

\* delete(id): deletedCount === 1
Modelo_delete(id) ==
    IF ~ObjectIdIsValid(id) THEN NotFound
    ELSE IF _col = "notInitialized" THEN NotInitialized
    ELSE IF id.oid \in DOMAIN store
    THEN Outcome(FALSE, "none", TRUE, NoDoc,
                 [g \in DOMAIN store \ {id.oid} |-> store[g]], 0)
    ELSE NotFound

\* addResena(juegoId, resenaData): the review is returned whether or not
\* findOneAndUpdate matched a document; $push onto a field that is not an
\* array is an error of the server.
Modelo_addResena(id, resenaData) ==
    IF ~ObjectIdIsValid(id)
    THEN Outcome(TRUE, "invalidId", FALSE, NoDoc, store, 0)
    ELSE IF _col = "notInitialized" THEN NotInitialized
    ELSE LET r == newResena(id, nextOid, resenaData, clock) IN
         IF id.oid \notin DOMAIN store
         THEN Outcome(FALSE, "none", TRUE, r, store, 1)
         ELSE IF ~IsArray(store[id.oid]["resenas"])
         THEN Outcome(TRUE, "MongoServerError", FALSE, NoDoc, store, 1)
         ELSE Outcome(FALSE, "none", TRUE, r,
                      [store EXCEPT ![id.oid] = applyPush(@, r)], 1)

\* The rank of a fechaCreacion value in the server's sort order: null below
\* numbers below strings, the empty string below every timestamp, and
\* timestamps by their instant.
sortKey(v) ==
    CASE v.k = "null" -> 0
      [] v.k = "num" -> 1
      [] v.k = "str" /\ v.s = "iso" -> 3 + v.n
      [] OTHER -> 2

\* { field: { $in: [v] } }: the field is an array holding v, or is v.
matches(doc, filter) ==
    \A f \in DOMAIN filter :
        IF IsArray(doc[f])
        THEN \E i \in 1..Len(doc[f].a) : doc[f].a[i] = filter[f]
        ELSE doc[f] = filter[f]

\* find(filter).sort({ fechaCreacion: -1 }).toArray() on collection st: the
\* listings the server may return, documents of equal fechaCreacion coming
\* in either order.
find(st, filter) ==
    LET hits == {g \in DOMAIN st : matches(st[g], filter)}
        n == Cardinality(hits)
        orders == {o \in [1..n -> hits] :
                     /\ \A i, j \in 1..n : i # j => o[i] # o[j]
                     /\ \A i, j \in 1..n : i < j =>
                            sortKey(st[o[i]]["fechaCreacion"])
                                >= sortKey(st[o[j]]["fechaCreacion"])}
    IN {[i \in 1..n |-> st[o[i]]] : o \in orders}

\* getAll(filter), the server answering with listing list.
Modelo_getAll(filter, list) ==
    IF _col = "notInitialized" THEN NotInitialized
    ELSE Outcome(FALSE, "none", TRUE, list, store, 0)

\* game?.resenas || [] for the game id of collection st.
resenasOf(st, id) ==
    IF id.oid \in DOMAIN st /\ Truthy(st[id.oid]["resenas"])
    THEN st[id.oid]["resenas"]
    ELSE Arr(<<>>)

\* getResenas(juegoId)
Modelo_getResenas(id) ==
    IF ~ObjectIdIsValid(id)
    THEN Outcome(FALSE, "none", TRUE, Arr(<<>>), store, 0)
    ELSE IF _col = "notInitialized" THEN NotInitialized
    ELSE Outcome(FALSE, "none", TRUE, resenasOf(store, id), store, 0)

\* ================================================== juegosController.js
\* The catch branch of create: ValidationError and duplicate key are 400.
createErrorStatus(err) ==
    IF err \in {"ValidationError", "E11000"} THEN 400 ELSE 500

\* The request of a handler takes effect: the repository's outcome r is
\* applied to the collection.
Applied(r) ==
    /\ store' = r.store
    /\ nextOid' = nextOid + r.used
    /\ UNCHANGED clock

\* POST /api/juegos
Controller_create(body) ==
    LET year == Get(body, "anoLanzamiento")
        genero == Get(body, "genero")
        normal == IF Truthy(year)
                  THEN [body EXCEPT !["anoLanzamiento"] = ParseInt(year)]
                  ELSE body
        r == Modelo_create(normal)
    IN
    IF ~Truthy(Get(body, "titulo"))
    THEN /\ resp' = Resp("create", ShortId, 400, 0, "titulo", body)
         /\ UNCHANGED <<store, nextOid, clock>>
    ELSE IF ~Truthy(genero) \/ (IsArray(genero) /\ Len(genero.a) = 0)
    THEN /\ resp' = Resp("create", ShortId, 400, 0, "genero", body)
         /\ UNCHANGED <<store, nextOid, clock>>
    ELSE IF Truthy(year) /\ IsNaN(NumberOf(year))
    THEN /\ resp' = Resp("create", ShortId, 400, 0, "anoLanzamiento", NoDoc)
         /\ UNCHANGED <<store, nextOid, clock>>
    ELSE /\ nextOid + r.used <= MaxOid + 1
         /\ Applied(r)
         /\ resp' = IF r.threw
                    THEN Resp("create", ShortId, createErrorStatus(r.err), 1,
                              "none", NoDoc)
                    ELSE Resp("create", ShortId, 201, 1, "none", r.doc)

\* GET /api/juegos/:id
Controller_getOne(id) ==
    LET r == Modelo_getOne(id) IN
    IF ~IsHex24(id)
    THEN /\ resp' = Resp("getOne", id, 400, 0, "none", NoDoc)
         /\ UNCHANGED <<store, nextOid, clock>>
    ELSE /\ Applied(r)
         /\ resp' = IF r.threw THEN Resp("getOne", id, 500, 1, "none", NoDoc)
                    ELSE IF ~r.found
                    THEN Resp("getOne", id, 404, 1, "none", NoDoc)
                    ELSE Resp("getOne", id, 200, 1, "none", r.doc)

\* PUT /api/juegos/:id
Controller_update(id, body) ==
    LET r == Modelo_update(id, body) IN
    /\ Applied(r)
    /\ resp' = IF r.threw THEN Resp("update", id, 500, 1, "none", NoDoc)
               ELSE IF ~r.found THEN Resp("update", id, 404, 1, "none", NoDoc)
               ELSE Resp("update", id, 200, 1, "none", r.doc)

\* DELETE /api/juegos/:id
Controller_delete(id) ==
    LET r == Modelo_delete(id) IN
    /\ Applied(r)
    /\ resp' = IF r.threw THEN Resp("delete", id, 500, 1, "none", NoDoc)
               ELSE IF ~r.found THEN Resp("delete", id, 404, 1, "none", NoDoc)
               ELSE Resp("delete", id, 200, 1, "none", NoDoc)

\* A plausible slip: the add-review handler without the upper bound of the
\* rating.
Controller_addResena_noUpperBound(id, body) ==
    LET rating == NumberOf(Get(body, "calificaciones"))
        r == Modelo_addResena(id, body)
    IN
    IF ~Truthy(Get(body, "nombreUsuario"))
    THEN /\ resp' = Resp("addResena", id, 400, 0, "nombreUsuario", NoDoc)
         /\ UNCHANGED <<store, nextOid, clock>>
    ELSE IF ~Truthy(Get(body, "textoResena"))
    THEN /\ resp' = Resp("addResena", id, 400, 0, "textoResena", NoDoc)
         /\ UNCHANGED <<store, nextOid, clock>>
    ELSE IF Get(body, "calificaciones") # Undefined
            /\ (IsNaN(rating) \/ rating.n < 0)
    THEN /\ resp' = Resp("addResena", id, 400, 0, "calificaciones", NoDoc)
         /\ UNCHANGED <<store, nextOid, clock>>
    ELSE /\ nextOid + r.used <= MaxOid + 1
         /\ Applied(r)
         /\ resp' = IF r.threw
                    THEN Resp("addResena", id, 500, 1, "none", NoDoc)
                    ELSE Resp("addResena", id, 201, 1, "none", r.doc)

\* POST /api/juegos/:id/reviews; `field` tells the three 400 messages apart.
Controller_addResena(id, body) ==
    LET rating == NumberOf(Get(body, "calificaciones"))
        r == Modelo_addResena(id, body)
    IN
    IF ~Truthy(Get(body, "nombreUsuario"))
    THEN /\ resp' = Resp("addResena", id, 400, 0, "nombreUsuario", NoDoc)
         /\ UNCHANGED <<store, nextOid, clock>>
    ELSE IF ~Truthy(Get(body, "textoResena"))
    THEN /\ resp' = Resp("addResena", id, 400, 0, "textoResena", NoDoc)
         /\ UNCHANGED <<store, nextOid, clock>>
    ELSE IF Get(body, "calificaciones") # Undefined
            /\ (IsNaN(rating) \/ rating.n < 0 \/ rating.n > 5)
    THEN /\ resp' = Resp("addResena", id, 400, 0, "calificaciones", NoDoc)
         /\ UNCHANGED <<store, nextOid, clock>>
    ELSE /\ nextOid + r.used <= MaxOid + 1
         /\ Applied(r)
         /\ resp' = IF r.threw
                    THEN Resp("addResena", id, 500, 1, "none", NoDoc)
                    ELSE Resp("addResena", id, 201, 1, "none", r.doc)

\* The filter getAll builds from req.query: a field is filtered on when
\* its query value is truthy.
filterOf(query) ==
    [f \in {q \in DOMAIN query \cap {"genero", "plataforma"} :
                Truthy(query[q])} |-> query[f]]

\* GET /api/juegos
Controller_getAll(query) ==
    \E list \in find(store, filterOf(query)) :
        LET r == Modelo_getAll(filterOf(query), list) IN
        /\ Applied(r)
        /\ resp' = IF r.threw
                   THEN Resp("getAll", ShortId, 500, 1, "none", NoDoc)
                   ELSE Resp("getAll", ShortId, 200, 1, "none", r.doc)

\* GET /api/juegos/:id/reviews
Controller_getResenas(id) ==
    LET r == Modelo_getResenas(id) IN
    /\ Applied(r)
    /\ resp' = IF r.threw THEN Resp("getResenas", id, 500, 1, "none", NoDoc)
               ELSE Resp("getResenas", id, 200, 1, "none", r.doc)

\* The exceptions a store operation may reject with, by the shape the
\* handlers look at: error.name 'ValidationError', error.code 11000, or
\* neither.
StoreErrors == {"ValidationError", "E11000", "MongoServerError"}

\* The status a handler's catch branch answers an exception with: only
\* create looks at the exception, every other handler answers 500.
catchStatus(op, err) ==
    IF op = "create" THEN createErrorStatus(err) ELSE 500

\* The store operation issued for handler op rejects with err: the
\* repository method rethrows it and the handler's catch answers.  The
\* store is unchanged.
StoreFault(op, id, err) ==
    /\ db # 0
    /\ IF op \in {"create", "getAll"} THEN id = ShortId ELSE IsHex24(id)
    /\ resp' = Resp(op, id, catchStatus(op, err), 1, "none", NoDoc)
    /\ UNCHANGED <<store, nextOid, clock>>

\* ------------------------------------------------------------- requests
\* The request bodies the handlers are driven with.
GameBodies ==
    { ("titulo" :> Str("Chrono Trigger")) @@ ("genero" :> Str("RPG"))
          @@ ("plataforma" :> Arr(<<Str("SNES"), Str("PC")>>)),
      ("titulo" :> Str("Halo")) @@ ("genero" :> Arr(<<Str("FPS"), Str("RPG")>>))
          @@ ("plataforma" :> Str("Xbox")) @@ ("anoLanzamiento" :> Str("2001")),
      ("genero" :> Str("RPG")),
      ("titulo" :> Str("Halo")),
      ("titulo" :> Str("Halo")) @@ ("genero" :> Arr(<<>>)),
      ("titulo" :> Str("Halo")) @@ ("genero" :> Str("FPS"))
          @@ ("anoLanzamiento" :> Str("abc")),
      ("titulo" :> Str("Halo")) @@ ("anoLanzamiento" :> Str("abc")),
      ("anoLanzamiento" :> Str("abc")) }

PatchBodies ==
    { EmptyBody,
      ("titulo" :> Str("Zelda")),
      ("_id" :> Str("forged")),
      ("fechaCreacion" :> Str("1999-01-01")),
      ("fechaCreacion" :> Str("")),
      ("fechaCreacion" :> Null),
      ("fechaCreacion" :> Num(0)),
      ("resenas" :> Arr(<<>>)),
      ("genero" :> Arr(<<>>)),
      ("_id" :> Null) @@ ("fechaCreacion" :> Str("1999-01-01"))
          @@ ("titulo" :> Str("Zelda")) }

ResenaBodies ==
    { ("nombreUsuario" :> Str("Ana")) @@ ("textoResena" :> Str("Great"))
          @@ ("calificaciones" :> Num(5)),
      ("nombreUsuario" :> Str("Ana")) @@ ("textoResena" :> Str("Great")),
      ("textoResena" :> Str("Great")),
      ("nombreUsuario" :> Str("Ana")),
      ("nombreUsuario" :> Str("Ana")) @@ ("textoResena" :> Str("Great"))
          @@ ("calificaciones" :> Num(7)),
      ("nombreUsuario" :> Str("Ana")) @@ ("textoResena" :> Str("Great"))
          @@ ("calificaciones" :> Num(-1)),
      ("nombreUsuario" :> Str("Ana")) @@ ("textoResena" :> Str("Great"))
          @@ ("calificaciones" :> Str("abc")),
      ("calificaciones" :> Num(7)) }

PostJuego ==
    /\ UNCHANGED <<connVars, flight>>
    /\ served < MaxRequests
    /\ served' = served + 1
    /\ \E body \in GameBodies : Controller_create(body)
    /\ born' = [g \in DOMAIN born \cup (DOMAIN store' \ DOMAIN store) |->
                    IF g \in DOMAIN born THEN born[g] ELSE clock]

GetJuego ==
    /\ UNCHANGED <<connVars, born, flight>>
    /\ served < MaxRequests
    /\ served' = served + 1
    /\ \E id \in PathIds : Controller_getOne(id)

PutJuego ==
    /\ UNCHANGED <<connVars, born, flight>>
    /\ served < MaxRequests
    /\ served' = served + 1
    /\ \E id \in PathIds, body \in PatchBodies : Controller_update(id, body)

DeleteJuego ==
    /\ UNCHANGED <<connVars, born, flight>>
    /\ served < MaxRequests
    /\ served' = served + 1
    /\ \E id \in PathIds : Controller_delete(id)

PostResena ==
    /\ UNCHANGED <<connVars, born, flight>>
    /\ served < MaxRequests
    /\ served' = served + 1
    /\ \E id \in PathIds, body \in ResenaBodies :
            Controller_addResena(id, body)

\* The query strings GET /api/juegos is driven with.
Queries ==
    { EmptyBody,
      ("genero" :> Str("RPG")),
      ("plataforma" :> Str("Xbox")),
      ("genero" :> Str("")) }

GetJuegos ==
    /\ UNCHANGED <<connVars, born, flight>>
    /\ served < MaxRequests
    /\ served' = served + 1
    /\ \E query \in Queries : Controller_getAll(query)

GetResenas ==
    /\ UNCHANGED <<connVars, born, flight>>
    /\ served < MaxRequests
    /\ served' = served + 1
    /\ \E id \in PathIds : Controller_getResenas(id)

\* A request whose store operation fails.
RepoThrows ==
    /\ UNCHANGED <<connVars, born, flight>>
    /\ served < MaxRequests
    /\ served' = served + 1
    /\ \E op \in RepoOps, id \in PathIds, err \in StoreErrors :
            StoreFault(op, id, err)

\* A millisecond passes.
Tick ==
    /\ clock < MaxClock
    /\ clock' = clock + 1
    /\ UNCHANGED <<connVars, store, nextOid, resp, served, born, flight>>

\* The server is listening after a start-up that connected, or after one
\* that found a setting missing (this.db was never set).
InitRepo ==
    /\ \/ /\ env = [k \in EnvKeys |-> TRUE]
          /\ client = 1
          /\ db = 1
          /\ topology = [c \in Clients |-> IF c = 1 THEN "connected" ELSE "none"]
          /\ listeners = [c \in Clients |-> IF c = 1 THEN 1 ELSE 0]
          /\ nextClient = 2
          /\ timers = 0
          /\ res = NoRes
       \/ /\ env = [k \in EnvKeys |-> FALSE]
          /\ client = 0
          /\ db = 0
          /\ topology = [c \in Clients |-> "none"]
          /\ listeners = [c \in Clients |-> 0]
          /\ nextClient = 1
          /\ timers = 1
          /\ res = [op |-> "conectarDB", out |-> "undefined", val |-> 0]
    /\ connectionAttempts = 0
    /\ chains = EmptyBag
    /\ srv = "listening"
    /\ proc = "running"
    /\ store = <<>>
    /\ nextOid = 1
    /\ clock = 0
    /\ resp = NoResp
    /\ served = 0
    /\ born = <<>>
    /\ flight = <<>>

NextRepo ==
    \/ PostJuego
    \/ GetJuego
    \/ PutJuego
    \/ DeleteJuego
    \/ PostResena
    \/ GetJuegos
    \/ GetResenas
    \/ RepoThrows
    \/ Tick

SpecRepo == InitRepo /\ [][NextRepo]_vars

\* ------------------------------------------ add-review requests in flight
\* addResena awaits findOneAndUpdate: between the call and its answer the
\* event loop serves other requests, and the server applies the updates it
\* has received one at a time, each as a whole, in an order of its own.

\* The field of the first 400 of addResena that body runs into, or "none".
resenaRefusal(body) ==
    LET rating == NumberOf(Get(body, "calificaciones")) IN
    IF ~Truthy(Get(body, "nombreUsuario")) THEN "nombreUsuario"
    ELSE IF ~Truthy(Get(body, "textoResena")) THEN "textoResena"
    ELSE IF Get(body, "calificaciones") # Undefined
            /\ (IsNaN(rating) \/ rating.n < 0 \/ rating.n > 5)
    THEN "calificaciones"
    ELSE "none"

\* A request in flight: its path id, the review addResena built, where it
\* stands, and (history) whether the game was stored when it was sent.
Sent(id, review) ==
    [id |-> id, review |-> review, at |-> "sent",
     existed |-> id.oid \in DOMAIN store]

\* POST /api/juegos/:id/reviews up to the await: a request that fails its
\* validation, its id check or the handle check is answered at once; any
\* other has its review built and its findOneAndUpdate sent.
ResenaSent ==
    /\ UNCHANGED <<connVars, born>>
    /\ served < MaxRequests
    /\ served' = served + 1
    /\ \E id \in PathIds, body \in ResenaBodies :
          IF \/ resenaRefusal(body) # "none"
             \/ ~ObjectIdIsValid(id)
             \/ _col = "notInitialized"
          THEN Controller_addResena(id, body) /\ UNCHANGED flight
          ELSE /\ nextOid <= MaxOid
               /\ flight' = flight @@
                    (nextOid :> Sent(id, newResena(id, nextOid, body, clock)))
               /\ nextOid' = nextOid + 1
               /\ UNCHANGED <<store, clock, resp>>

\* The server applies one of the updates it has received: the $push of a
\* single findOneAndUpdate, on the document as it is now.
PushApplied ==
    /\ UNCHANGED <<connVars, nextOid, clock, resp, served, born>>
    /\ \E p \in DOMAIN flight :
          /\ flight[p].at = "sent"
          /\ LET g == flight[p].id.oid IN
             IF g \notin DOMAIN store
             THEN /\ store' = store
                  /\ flight' = [flight EXCEPT ![p].at = "applied"]
             ELSE IF ~IsArray(store[g]["resenas"])
             THEN /\ store' = store
                  /\ flight' = [flight EXCEPT ![p].at = "failed"]
             ELSE /\ store' = [store EXCEPT
                                  ![g] = applyPush(@, flight[p].review)]
                  /\ flight' = [flight EXCEPT ![p].at = "applied"]

\* The await returns and the handler answers: 201 with the review it
\* built, or 500 when findOneAndUpdate threw.
ResenaAnswered ==
    /\ UNCHANGED <<connVars, store, nextOid, clock, served, born>>
    /\ \E p \in DOMAIN flight :
          /\ flight[p].at \in {"applied", "failed"}
          /\ resp' = IF flight[p].at = "failed"
                     THEN Resp("addResena", flight[p].id, 500, 1, "none",
                               NoDoc)
                     ELSE Resp("addResena", flight[p].id, 201, 1, "none",
                               flight[p].review)
          /\ flight' = [flight EXCEPT ![p].at = "answered"]

\* The server is listening, connected, and its first request created a
\* game (the state PostJuego leaves behind on the first body).
InitFlight ==
    LET body == ("titulo" :> Str("Chrono Trigger")) @@ ("genero" :> Str("RPG"))
                    @@ ("plataforma" :> Arr(<<Str("SNES"), Str("PC")>>))
        made == newGame(body, 0) @@ ("_id" :> Oid(1))
    IN
    /\ env = [k \in EnvKeys |-> TRUE]
    /\ client = 1
    /\ db = 1
    /\ connectionAttempts = 0
    /\ topology = [c \in Clients |-> IF c = 1 THEN "connected" ELSE "none"]
    /\ listeners = [c \in Clients |-> IF c = 1 THEN 1 ELSE 0]
    /\ nextClient = 2
    /\ chains = EmptyBag
    /\ timers = 0
    /\ srv = "listening"
    /\ proc = "running"
    /\ res = NoRes
    /\ body \in GameBodies
    /\ store = (1 :> made)
    /\ nextOid = 2
    /\ clock = 0
    /\ resp = Resp("create", ShortId, 201, 1, "none", made)
    /\ served = 1
    /\ born = (1 :> 0)
    /\ flight = <<>>

NextFlight ==
    \/ ResenaSent
    \/ PushApplied
    \/ ResenaAnswered
    \/ Tick

SpecFlight == InitFlight /\ [][NextFlight]_vars

\* =============================================================== claims
\* C1: at first boot the server is never listening unless a database
\* connection has been established: with the configuration present, a
\* start-up whose retries are exhausted must not reach app.listen.
C1_NoServingWithoutConnection ==
    (srv = "listening" /\ ConfigPresent) => db # 0

\* C3: whenever the manager has no healthy connection, a repository
\* operation (here one that passes its identifier check) fails with the
\* "not initialized" error instead of issuing a store operation.
C3_NotInitializedWhenUnhealthy ==
    (res.op \in RepoOps /\ res.val = 1 /\ ~isConnected)
        => res.out = "notInitialized"

\* C4: no invocation of connectWithRetry makes more than
\* maxReconnectAttempts connection attempts, in any interleaving.
C4_AtMostFiveAttempts ==
    \A ch \in BagToSet(chains) : ch.made <= maxReconnectAttempts

\* C5: never are two connectWithRetry chains in progress at the same time.
C5_ReconnectsSerialized == InProgress <= 1

\* C6: with a required setting absent, no connection attempt is made and
\* no reconnect timer is set.
C6_ConfigErrorNoRetry ==
    ~ConfigPresent
        => (timers = 0 /\ chains = EmptyBag /\ connectionAttempts = 0)

\* C7: after a successful start-up, a background reconnection that runs out
\* of attempts is only logged: no promise rejection goes unhandled and the
\* process keeps running.
C7_BackgroundFailureHandled ==
    (ConfigPresent /\ db # 0)
        => (res.op # "unhandledRejection" /\ proc = "running")

\* C8: a conectarDB() call made while a client exists and is connected
\* returns that client and changes neither client, db, connectionAttempts
\* nor anything else of the manager (no new client, no attempt, no timer);
\* a call made in any other state runs initialize().
C8_ConectarDBIdempotent ==
    [][res'.op = "conectarDB" =>
          IF isConnected
          THEN /\ res'.out = "client"
               /\ res'.val = client
               /\ UNCHANGED <<client, db, connectionAttempts, topology,
                              listeners, nextClient, chains, timers>>
          ELSE res'.out \in {"undefined", "pending"}]_vars

\* C8 witness: conectarDB() has returned the existing, connected client.
C8_Witness ==
    res.op = "conectarDB" /\ res.out = "client" /\ isConnected

\* C9: getDB() returns the handle exactly when the client exists and its
\* topology is connected, and the handle is then the current client's;
\* in every other state it throws.
C9_GetDBOnlyWhenConnected ==
    res.op = "getDB" =>
        IF isConnected
        THEN res.out = "db" /\ res.val # 0 /\ res.val = client
        ELSE res.out = "throw"

\* C9 witness: getDB() has thrown after a connection had once been
\* established (the handle is set, the topology is not connected).
C9_Witness ==
    res.op = "getDB" /\ res.out = "throw" /\ db # 0

\* C2: a stored game's _id and fechaCreacion never change, whatever
\* update() is given for them.
C2_IdAndCreatedAtImmutable ==
    [][\A g \in DOMAIN store \cap DOMAIN store' :
          /\ store'[g]["_id"] = store[g]["_id"]
          /\ store'[g]["fechaCreacion"] = store[g]["fechaCreacion"]]_vars

\* C10: getOne, update and delete answer a path id that is not 24
\* hexadecimal characters with 400 and make no repository call.
C10_BadIdRejectedBeforeRepository ==
    (resp.op \in {"getOne", "update", "delete"} /\ ~IsHex24(resp.id))
        => (resp.status = 400 /\ resp.calls = 0)

\* C11: a get-one, update, delete or add-review request that reaches the
\* repository with a well-formed id matching no stored game is answered
\* with 404 (the store being available and answering).
C11_AbsentTargetIs404 ==
    [][(/\ served' # served
        /\ resp'.op \in {"getOne", "update", "delete", "addResena"}
        /\ resp'.calls = 1
        /\ IsHex24(resp'.id)
        /\ resp'.id.oid \notin DOMAIN store
        /\ db # 0
        /\ resp'.status # 500)
          => resp'.status = 404]_vars

\* C12: a review that addResena returned (the handler answered 201 with
\* it) is, right after the call, an element of getResenas of that game,
\* and is held by exactly one stored game.
C12_ReturnedReviewIsStored ==
    [][(served' # served /\ resp'.op = "addResena" /\ resp'.status = 201)
          => LET held(g) == LET rs == resenasOf(store', HexId(g)) IN
                            \E i \in 1..Len(rs.a) : rs.a[i] = resp'.data
             IN /\ IsHex24(resp'.id) /\ held(resp'.id.oid)
                /\ Cardinality({g \in DOMAIN store' : held(g)}) = 1]_vars

\* C13: reviews are append-only.  In every step a game that stays stored
\* keeps the reviews it had, in place and unaltered, and gains a review
\* only by an add-review request, which appends the one it returns.
C13_ReviewsAppendOnly ==
    [][\A g \in DOMAIN store \cap DOMAIN store' :
          LET old == store[g]["resenas"]
              new == store'[g]["resenas"]
          IN /\ IsArray(new)
             /\ Len(new.a) >= Len(old.a)
             /\ \A i \in 1..Len(old.a) : new.a[i] = old.a[i]
             /\ new # old =>
                    /\ resp'.op = "addResena"
                    /\ new = Arr(Append(old.a, resp'.data))]_vars

\* C14: the genero and plataforma of every stored game are non-empty
\* sequences.
C14_GenreAndPlatformNonEmpty ==
    \A g \in DOMAIN store : \A f \in {"genero", "plataforma"} :
        IsArray(store[g][f]) /\ Len(store[g][f].a) >= 1

\* C15: an add-review request whose game id is malformed is answered with
\* 400, never 500.
C15_BadReviewIdIs400 ==
    (resp.op = "addResena" /\ ~IsHex24(resp.id)) => resp.status = 400

\* C16: a create request whose body fails a check is answered 400
\* without a repository call; the response names the first check the
\* body fails, in the order titulo, genero, anoLanzamiento, and echoes
\* the received body.
C16_CreateValidationOrder ==
    [][(served' # served /\ resp'.op = "create") =>
       \A body \in GameBodies :
          Controller_create(body) =>
              LET genero == Get(body, "genero")
                  year == Get(body, "anoLanzamiento")
                  first ==
                      IF Get(body, "titulo") \in {Undefined, Str("")}
                      THEN "titulo"
                      ELSE IF genero \in {Undefined, Str(""), Arr(<<>>)}
                      THEN "genero"
                      ELSE IF year \notin {Undefined, Str("")}
                              /\ NumberOf(year).k # "num"
                      THEN "anoLanzamiento"
                      ELSE "none"
              IN IF first = "none" THEN resp'.calls = 1
                 ELSE /\ resp'.status = 400
                      /\ resp'.field = first
                      /\ resp'.data = body
                      /\ resp'.calls = 0
                      /\ store' = store]_vars

\* C17: an add-review request lacking nombreUsuario or textoResena, or
\* whose calificaciones is present and is not a number in 0..5, is
\* answered 400 without a repository call and without a change of the
\* store; every other add-review request reaches the repository.
C17_ReviewValidation ==
    [][(served' # served /\ resp'.op = "addResena") =>
       \A id \in {resp'.id}, body \in ResenaBodies :
          Controller_addResena(id, body) =>
              LET rating == Get(body, "calificaciones")
                  parsed == NumberOf(rating)
                  inRange == parsed.k = "num" /\ parsed.n \in 0..5
                  lacks(f) == Get(body, f) \in {Undefined, Str("")}
                  refused == \/ lacks("nombreUsuario")
                             \/ lacks("textoResena")
                             \/ (rating # Undefined /\ ~inRange)
              IN IF refused
                 THEN /\ resp'.status = 400 /\ resp'.calls = 0
                      /\ store' = store
                 ELSE resp'.calls = 1 /\ resp'.status # 400]_vars

\* C17 witness: a review with an out-of-range rating was refused before
\* any repository call.
C17_Witness ==
    /\ resp.op = "addResena" /\ resp.status = 400 /\ resp.calls = 0
    /\ resp.field = "calificaciones"

\* C18: for every query, every listing getAll may return holds exactly
\* the stored games whose genero (plataforma) sequence contains the query
\* value, all stored games without a filter, and never lists a game
\* before one that was created later.
C18_ListingNewestFirst ==
    \A query \in Queries : \A list \in find(store, filterOf(query)) :
        LET wanted == {g \in DOMAIN store :
                         \A f \in DOMAIN filterOf(query) :
                             \E i \in 1..Len(store[g][f].a) :
                                 store[g][f].a[i] = query[f]}
            at(i) == born[list[i]["_id"].n]
        IN /\ Len(list) = Cardinality(wanted)
           /\ {list[i] : i \in 1..Len(list)} = {store[g] : g \in wanted}
           /\ \A i, j \in 1..Len(list) : i < j => at(i) >= at(j)

\* C19: with the store available and answering, a delete request is
\* answered 200 exactly when a game with that id was stored; that game
\* alone is then removed, and neither it nor its reviews can be
\* retrieved.  For any other id the answer is 404 and the store is
\* unchanged, also when the request is repeated.
C19_DeleteSemantics ==
    [][(served' # served /\ resp'.op = "delete" /\ db # 0) =>
       \A id \in {resp'.id} :
          Controller_delete(id) =>
          IF IsHex24(id) /\ id.oid \in DOMAIN store
          THEN /\ resp'.status = 200
               /\ DOMAIN store' = DOMAIN store \ {id.oid}
               /\ \A g \in DOMAIN store' : store'[g] = store[g]
               /\ resenasOf(store', id) = Arr(<<>>)
               /\ \A q \in Queries : \A list \in find(store', filterOf(q)) :
                      \A i \in 1..Len(list) : list[i]["_id"] # Oid(id.oid)
          ELSE resp'.status = 404 /\ store' = store]_vars

\* C19 witness: a delete of a game that had been stored and deleted
\* before was answered 404.
C19_Witness ==
    /\ resp.op = "delete" /\ resp.status = 404 /\ IsHex24(resp.id)
    /\ resp.id.oid \in DOMAIN born \ DOMAIN store

\* C20: whatever handler it reaches, an exception of the repository is
\* answered 400 when it is validation-shaped or a duplicate key, and 500
\* otherwise.
C20_ErrorClassification ==
    [][\A op \in RepoOps, id \in PathIds, err \in StoreErrors :
          (served' # served /\ StoreFault(op, id, err)) =>
              resp'.status =
                  IF err \in {"ValidationError", "E11000"} THEN 400
                  ELSE 500]_vars

C22_BareStringBecomesSequence ==
    [][(served' # served /\ resp'.op = "create" /\ resp'.status = 201) =>
          \A body \in GameBodies : Controller_create(body) =>
              \A g \in DOMAIN store' \ DOMAIN store :
                  \A f \in {"genero", "plataforma"} :
                      LET given == Get(body, f) IN
                      /\ (given.k = "str" /\ given.s # "") =>
                            store'[g][f] = Arr(<<given>>)
                      /\ IsArray(given) => store'[g][f] = given]_vars

\* C22 witness: a stored game made from a bare-string genero and an array
\* plataforma, and one made from an array genero and a bare-string
\* plataforma.
C22_Witness ==
    /\ resp.op = "create" /\ resp.status = 201
    /\ \E g, h \in DOMAIN store :
          /\ store[g]["genero"] = Arr(<<Str("RPG")>>)
          /\ store[g]["plataforma"] = Arr(<<Str("SNES"), Str("PC")>>)
          /\ store[h]["genero"] = Arr(<<Str("FPS"), Str("RPG")>>)
          /\ store[h]["plataforma"] = Arr(<<Str("Xbox")>>)

\* C23: add-review requests on one stored game lose no review, however
\* their updates interleave: once the server has applied the update of a
\* request sent for a stored game, its review is in that game's reviews,
\* once, and stays there while other requests are applied.
C23_NoReviewLost ==
    \A p \in DOMAIN flight :
        (flight[p].existed /\ flight[p].at # "sent") =>
            LET rs == resenasOf(store, flight[p].id) IN
            Cardinality({i \in 1..Len(rs.a) : rs.a[i] = flight[p].review}) = 1

\* C23 witness: two requests for the same stored game were in flight
\* together, the later one was applied first, and both have been answered.
C23_Witness ==
    \E p, q \in DOMAIN flight :
        /\ p < q /\ flight[p].id = flight[q].id
        /\ flight[p].existed /\ flight[q].existed
        /\ flight[p].at = "answered" /\ flight[q].at = "answered"
        /\ LET rs == resenasOf(store, flight[p].id) IN
           rs.a = <<flight[q].review, flight[p].review>>

\* C24: in every reachable state of the connection manager,
\* connectionAttempts lies in 0..maxReconnectAttempts.
C24_CounterInRange ==
    connectionAttempts \in 0..maxReconnectAttempts

\* C25: connectionAttempts is set back to 0 only by a connect() that
\* succeeded; a heartbeat-failure or pool-closed event that finds the
\* counter at maxReconnectAttempts or above sets no timer and starts no
\* chain; and a manager that is disconnected with the counter at
\* maxReconnectAttempts or above stays disconnected.
C25_GivesUpAtFive ==
    [][/\ (connectionAttempts # 0 /\ connectionAttempts' = 0) =>
            \/ \E ch \in BagToSet(chains) : ConnectDone(ch, TRUE)
            \/ isConnected /\ (TimerFire \/ \E ch \in BagToSet(chains) :
                                                  WaitDone(ch))
       /\ (/\ connectionAttempts >= maxReconnectAttempts
           /\ \E c \in Clients : HeartbeatFailed(c) \/ PoolClosed(c)) =>
            (timers' = timers /\ chains' = chains)
       /\ (connectionAttempts >= maxReconnectAttempts /\ ~isConnected) =>
            ~isConnected']_vars

\* C26: in the repository the id check comes before the handle check.
\* With an id that is not a valid ObjectId, and whether or not this.db is
\* set, getOne and update return null, delete returns false and
\* getResenas returns an empty array, none of them throwing or touching the
\* collection, while addResena throws its invalid-id error; and the
\* handlers that pass such an id on answer accordingly.
C26_IdCheckBeforeHandleCheck ==
    /\ \A id \in {i \in PathIds : ~ObjectIdIsValid(i)} :
          /\ Modelo_getOne(id) = NotFound
          /\ \A body \in PatchBodies : Modelo_update(id, body) = NotFound
          /\ Modelo_delete(id) = NotFound
          /\ Modelo_getResenas(id)
                = Outcome(FALSE, "none", TRUE, Arr(<<>>), store, 0)
          /\ \A body \in ResenaBodies :
                Modelo_addResena(id, body)
                    = Outcome(TRUE, "invalidId", FALSE, NoDoc, store, 0)
    /\ (resp.calls = 1 /\ ~ObjectIdIsValid(resp.id)) =>
          CASE resp.op \in {"update", "delete"} -> resp.status = 404
            [] resp.op = "getResenas" ->
                  resp.status = 200 /\ resp.data = Arr(<<>>)
            [] resp.op = "addResena" -> resp.status = 500
            [] OTHER -> resp.op \in {"create", "getAll"}

\* C26 witness: with this.db never set, an update that reached the
\* repository with an invalid id was answered "not found", not with the
\* "not initialized" error.
C26_Witness ==
    /\ db = 0 /\ _col = "notInitialized"
    /\ resp.op = "update" /\ ~ObjectIdIsValid(resp.id)
    /\ resp.calls = 1 /\ resp.status = 404

====
